---- MODULE Spec2Model ----
(***************************************************************************)
(* Session state machine of the two Guava Writer front ends:               *)
(*   guavawriter2.py   (app = "guavawriter2",   actions GW_...)             *)
(*   simplified-app.py (app = "simplified_app", actions SA_...)             *)
(*                                                                         *)
(* Both are Streamlit scripts: every user interaction runs the script from *)
(* top to bottom against st.session_state, and st.rerun() starts the run   *)
(* over.  One action of the model is one user interaction together with    *)
(* the script run(s) it causes.                                            *)
(*                                                                         *)
(* Widgets: the text typed into "Select an idea (1-3):" and into the       *)
(* direction/feedback text areas is an input of the run its entry or the   *)
(* button click causes; the radio of simplified-app keeps its index from   *)
(* run to run (variable radio).  The chat log st.session_state.messages of *)
(* guavawriter2 is display only; of it the model keeps the idea list of    *)
(* the latest ideas message (variable ideas).                              *)
(*                                                                         *)
(* Representation of Python values:                                        *)
(*   None / a value     <<>>  /  <<v>>            (None, Some)              *)
(*   transcript         sequence of characters                             *)
(*   response line      sequence of tokens ("Idea", ":", " ", words)       *)
(*   idea               sequence of tokens                                 *)
(*   script, feedback   atomic strings ("" is the empty text)              *)
(*   prompt text        sequence of pieces                                 *)
(*   persona document   sequence of tokens ("##", " ", "\n", names, texts)  *)
(*                                                                         *)
(* The PersonaManager of guavawriter2 is rebuilt by every run from the     *)
(* persona file; Spec holds it at what one well-formed document loads to,  *)
(* and PersonaSpec explores its construction and loading on its own.       *)
(***************************************************************************)
EXTENDS Integers, Sequences, FiniteSets, TLC

\* ------------------------------------------------------------------ bounds

\* Longest revision history explored.
MaxHistory == 2

\* Most pieces of a persona document explored.
MaxBlocks == 3

\* ------------------------------------------------------- program constants

\* guavawriter2.py:89  len(transcript.strip()) < 10
MinTranscriptLen == 10
\* ideas[:3]
MaxIdeas == 3

\* ------------------------------------------------------------ Python values

None == <<>>
Some(v) == <<v>>

\* Python truthiness of an optional text given as a sequence (None, "" -> False)
TruthySeq(o) == o /= None /\ o[1] /= <<>>
\* Python truthiness of an optional atomic string
TruthyStr(o) == o /= None /\ o[1] /= ""

Whitespace == {" ", "\n"}

RECURSIVE lstrip(_)
lstrip(s) == IF s /= <<>> /\ Head(s) \in Whitespace THEN lstrip(Tail(s)) ELSE s

RECURSIVE rstrip(_)
rstrip(s) ==
    IF s /= <<>> /\ s[Len(s)] \in Whitespace
    THEN rstrip(SubSeq(s, 1, Len(s) - 1))
    ELSE s

\* str.strip()
strip(s) == rstrip(lstrip(s))

\* str.startswith(prefix)
startswith(s, prefix) ==
    Len(s) >= Len(prefix) /\ SubSeq(s, 1, Len(prefix)) = prefix

\* c in s
contains(s, c) == \E i \in 1..Len(s) : s[i] = c

\* s.split(c, 1)[1] for a string that contains c
after_first(s, c) ==
    LET i == CHOOSE k \in 1..Len(s) : s[k] = c /\ \A j \in 1..(k - 1) : s[j] /= c
    IN  SubSeq(s, i + 1, Len(s))

\* seq[:n]
take(s, n) == SubSeq(s, 1, IF Len(s) < n THEN Len(s) ELSE n)

\* ------------------------------------------------------------ input domains

Rep(n, c) == [i \in 1..n |-> c]

\* Transcripts the transcript service can return: empty, whitespace only,
\* nine characters inside padding, ten characters.
EmptyTranscript == <<>>
BlankTranscript == Rep(3, " ")
NineTranscript  == <<" ">> \o Rep(MinTranscriptLen - 1, "a") \o <<" ">>
TenTranscript   == Rep(MinTranscriptLen, "a")
Transcripts == {EmptyTranscript, BlankTranscript, NineTranscript, TenTranscript}

\* Lines of a response of the text-generation service.
LineA     == <<"Idea", ":", " ", "A", " ", "thing">>
LineMore  == <<"more", " ", "detail">>
LineB     == <<"Idea", ":", " ", "Second">>
LineC     == <<"Idea", ":", " ", "Third">>
LineD     == <<"Idea", ":", " ", "Fourth">>
LineBare  == <<"Idea", ":">>
LineProse == <<"Here", " ", "you", " ", "go">>

\* Response bodies, already split at "\n".
IdeaResponses ==
    { <<LineProse>>,
      <<LineA, LineMore, LineB>>,
      <<LineA, LineMore, LineB, LineC, LineD>>,
      <<LineBare, LineB>> }

\* Script texts the service can return (a text block of a response is never
\* empty), and feedback the user can type.
Scripts   == {"draft v1", "draft v2"}
Feedbacks == {"", "make it shorter"}

\* Outcome of one call of client.messages.create
ServiceFailure == [ok |-> FALSE]
IdeaOutcomes   == {ServiceFailure} \cup {[ok |-> TRUE, lines |-> r] : r \in IdeaResponses}
ScriptOutcomes == {ServiceFailure} \cup {[ok |-> TRUE, text |-> t] : t \in Scripts}

\* Outcome of YouTubeTranscriptApi.get_transcript
FetchFailure  == [ok |-> FALSE]
FetchOutcomes == {FetchFailure} \cup {[ok |-> TRUE, text |-> t] : t \in Transcripts}

\* URLs as urllib.parse.urlparse sees them: hostname, path, the v of the query
Urls ==
    { [hostname |-> "www.youtube.com", path |-> <<"/", "watch">>, v |-> Some(<<"vid">>)],
      [hostname |-> "youtube.com",     path |-> <<"/", "watch">>, v |-> None],
      [hostname |-> "example.com",     path |-> <<"/", "watch">>, v |-> Some(<<"vid">>)] }

\* What the user can type into "Select an idea (1-3):"
IdeaInputs == {"x", "0", "1", "2", "3", "4"}

\* str.isdigit() and int() on the inputs above
isdigit(s) == s \in {"0", "1", "2", "3", "4"}
int(s) == CASE s = "0" -> 0 [] s = "1" -> 1 [] s = "2" -> 2 [] s = "3" -> 3 [] s = "4" -> 4

\* Pieces of a persona document: the two named sections, another section, a
\* named section without body, a header that ends the file without a
\* newline, and text before the first header.
IdeationSection   == <<"##", " ", "Ideation", "\n", "see the art", "\n">>
DialogueSection   == <<"##", " ", "Dialogue", "\n", "speak gently", "\n">>
VoiceSection      == <<"##", " ", "Voice", "\n", "warm", "\n">>
IdeationNoBody    == <<"##", " ", "Ideation", "\n">>
DialogueNoNewline == <<"##", " ", "Dialogue">>
Preamble          == <<"Clio Maar", "\n">>
PersonaBlocks ==
    {IdeationSection, DialogueSection, VoiceSection, IdeationNoBody,
     DialogueNoNewline, Preamble}

\* The documents of at most n pieces
RECURSIVE Documents(_)
Documents(n) ==
    IF n = 0 THEN {<<>>}
    ELSE LET shorter == Documents(n - 1)
         IN  shorter \cup {d \o b : d \in shorter, b \in PersonaBlocks}

\* What Path(persona_file).read_text() finds: no readable file, or a document
PersonaFiles == {None} \cup {Some(d) : d \in Documents(MaxBlocks)}

\* The persona document of the sessions of Spec
SessionPersona == Some(IdeationSection \o DialogueSection)

\* ---------------------------------------------------------- pure functions

\* extract_video_id: the video id, or the exception raised
extract_video_id(url) ==
    IF url.hostname = "youtu.be"
    THEN [ok |-> TRUE, id |-> Tail(url.path)]
    ELSE IF url.hostname \in {"www.youtube.com", "youtube.com"} /\ url.path = <<"/", "watch">>
    THEN IF url.v /= None
         THEN [ok |-> TRUE, id |-> url.v[1]]
         ELSE [ok |-> FALSE, error |-> "KeyError"]
    ELSE [ok |-> FALSE, error |-> "ValueError"]

\* The request generate_ideas sends
IdeasRequest(transcript, max_tokens) ==
    [op |-> "generate_ideas", model |-> "claude-3-sonnet-20240229",
     max_tokens |-> max_tokens, transcript |-> transcript]

\* guavawriter2: the loop over the response's lines; current_idea is None or a text
RECURSIVE gw_parse_loop(_, _, _)
gw_parse_loop(lines, ideas, current_idea) ==
    IF lines = <<>>
    THEN IF TruthySeq(current_idea) THEN Append(ideas, current_idea[1]) ELSE ideas
    ELSE LET line == Head(lines) IN
         IF startswith(strip(line), <<"Idea">>) /\ contains(line, ":")
         THEN gw_parse_loop(Tail(lines),
                  IF TruthySeq(current_idea) THEN Append(ideas, current_idea[1]) ELSE ideas,
                  Some(strip(after_first(line, ":"))))
         ELSE IF TruthySeq(current_idea) /\ strip(line) /= <<>>
         THEN gw_parse_loop(Tail(lines), ideas,
                  Some(current_idea[1] \o <<" ">> \o strip(line)))
         ELSE gw_parse_loop(Tail(lines), ideas, current_idea)

gw_parse_ideas(lines) == take(gw_parse_loop(lines, <<>>, None), MaxIdeas)

\* simplified-app: the loop over the response's lines
RECURSIVE sa_parse_loop(_, _)
sa_parse_loop(lines, ideas) ==
    IF lines = <<>> THEN ideas
    ELSE LET line == Head(lines) IN
         IF startswith(line, <<"Idea", ":">>)
         THEN sa_parse_loop(Tail(lines), Append(ideas, strip(SubSeq(line, 3, Len(line)))))
         ELSE sa_parse_loop(Tail(lines), ideas)

sa_parse_ideas(lines) == take(sa_parse_loop(lines, <<>>), MaxIdeas)

\* guavawriter2 GuavaWriter.generate_ideas: the list returned, the requests
\* sent and the errors shown.  transcript is None or a text.
gw_too_short(transcript) ==
    ~TruthySeq(transcript) \/ Len(strip(transcript[1])) < MinTranscriptLen

\* gw_generate_ideas reporting a response without ideas as a failed call
gw_generate_ideas_strict(transcript, svc) ==
    IF gw_too_short(transcript)
    THEN [ideas |-> <<>>, requests |-> <<>>, errors |-> <<"TranscriptTooShort">>]
    ELSE IF ~svc.ok \/ gw_parse_ideas(svc.lines) = <<>>
    THEN [ideas |-> <<>>, requests |-> <<IdeasRequest(transcript[1], 1000)>>,
          errors |-> <<"GenerationServiceError">>]
    ELSE [ideas |-> gw_parse_ideas(svc.lines),
          requests |-> <<IdeasRequest(transcript[1], 1000)>>, errors |-> <<>>]

gw_generate_ideas(transcript, svc) ==
    IF gw_too_short(transcript)
    THEN [ideas |-> <<>>, requests |-> <<>>, errors |-> <<"TranscriptTooShort">>]
    ELSE IF ~svc.ok
    THEN [ideas |-> <<>>, requests |-> <<IdeasRequest(transcript[1], 1000)>>,
          errors |-> <<"GenerationServiceError">>]
    ELSE [ideas |-> gw_parse_ideas(svc.lines),
          requests |-> <<IdeasRequest(transcript[1], 1000)>>, errors |-> <<>>]

\* simplified-app generate_ideas: the list returned or the exception raised,
\* and the requests sent
sa_generate_ideas(transcript, svc) ==
    IF ~svc.ok
    THEN [raised |-> TRUE, ideas |-> <<>>, requests |-> <<IdeasRequest(transcript, 500)>>]
    ELSE [raised |-> FALSE, ideas |-> sa_parse_ideas(svc.lines),
          requests |-> <<IdeasRequest(transcript, 500)>>]

\* history_block numbering the versions from 0 (enumerate without its start)
history_block_from_zero(i, script, feedback) ==
    <<"\nVERSION ", ToString(i - 1), ":\n", script, "\nFEEDBACK:\n", feedback, "\n---">>

\* One block of the history serialization: the pieces of the f-string
history_block(i, script, feedback) ==
    <<"\nVERSION ", ToString(i), ":\n", script, "\nFEEDBACK:\n", feedback, "\n---">>

RECURSIVE format_loop(_, _, _)
format_loop(history, i, formatted) ==
    IF i > Len(history) THEN formatted
    ELSE format_loop(history, i + 1,
             formatted \o history_block(i, history[i][1], history[i][2]))

\* format_history / GuavaWriter.format_revision_history
format_history(history) == format_loop(history, 1, <<>>)

\* The branch both generate_script functions take: current_script and direction
revising(direction, current_script) == TruthyStr(current_script) /\ direction /= ""

\* guavawriter2 GuavaWriter.generate_script: the request built
gw_generate_script(transcript, idea, direction, current_script) ==
    IF revising(direction, current_script)
    THEN [op |-> "generate_script", model |-> "claude-3-opus-20240229", max_tokens |-> 1000,
          prompt |-> [kind |-> "revise", idea |-> idea,
                      current_script |-> current_script[1], direction |-> direction]]
    ELSE [op |-> "generate_script", model |-> "claude-3-opus-20240229", max_tokens |-> 1000,
          prompt |-> [kind |-> "compose", idea |-> idea,
                      transcript |-> transcript, direction |-> direction]]

\* simplified-app generate_script: the request built; revision_history is the
\* session's history at the time of the call
sa_generate_script(transcript, idea, direction, current_script, revision_history) ==
    LET history == IF revision_history /= <<>> THEN format_history(revision_history) ELSE <<>>
    IN  IF revising(direction, current_script)
        THEN [op |-> "generate_script", model |-> "claude-3-opus-20240229", max_tokens |-> 1000,
              prompt |-> [kind |-> "revise", history |-> history,
                          current_script |-> current_script[1], direction |-> direction]]
        ELSE [op |-> "generate_script", model |-> "claude-3-opus-20240229", max_tokens |-> 1000,
              prompt |-> [kind |-> "compose", idea |-> idea,
                          direction |-> direction, transcript |-> transcript]]

\* ------------------------------------------------------ PersonaManager

\* A persona document is its text as a sequence of tokens: "##", " ", "\n",
\* the section names and body texts.

\* A match of ^##\s+ (re.MULTILINE) starts at position i
header_at(content, i) ==
    /\ content[i] = "##"
    /\ (i = 1 \/ content[i - 1] = "\n")
    /\ i < Len(content)
    /\ content[i + 1] \in Whitespace

\* The end of the \s+ of a match: the first position from i on that is not
\* whitespace
RECURSIVE skip_space(_, _)
skip_space(content, i) ==
    IF i <= Len(content) /\ content[i] \in Whitespace
    THEN skip_space(content, i + 1)
    ELSE i

\* re.split(r'^##\s+', content, flags=re.MULTILINE)
RECURSIVE re_split(_, _, _, _)
re_split(content, i, piece, pieces) ==
    IF i > Len(content) THEN Append(pieces, piece)
    ELSE IF header_at(content, i)
    THEN re_split(content, skip_space(content, i + 1), <<>>, Append(pieces, piece))
    ELSE re_split(content, i + 1, Append(piece, content[i]), pieces)

\* sections = re.split(...)[1:]
persona_sections(content) == Tail(re_split(content, 1, <<>>, <<>>))

\* The built-in fragments of the except branch
DefaultIdeation == <<"Generate creative ideas">>
DefaultDialogue == <<"Engage in dialogue">>

\* The loop over the sections; p holds the two prompts and whether
\* section.split('\n', 1)[1] raised IndexError
RECURSIVE section_loop(_, _)
section_loop(sections, p) ==
    IF sections = <<>> \/ p.raised THEN p
    ELSE LET section == Head(sections) IN
         IF startswith(section, <<"Ideation">>)
         THEN IF ~contains(section, "\n")
              THEN [p EXCEPT !.raised = TRUE]
              ELSE section_loop(Tail(sections),
                       [p EXCEPT !.ideation_prompt = strip(after_first(section, "\n"))])
         ELSE IF startswith(section, <<"Dialogue">>)
         THEN IF ~contains(section, "\n")
              THEN [p EXCEPT !.raised = TRUE]
              ELSE section_loop(Tail(sections),
                       [p EXCEPT !.dialogue_prompt = strip(after_first(section, "\n"))])
         ELSE section_loop(Tail(sections), p)

\* PersonaManager.load_persona on the file (None when it cannot be read) and
\* the prompts set so far: the prompts after it and the errors shown
load_persona(persona_file, ideation_prompt, dialogue_prompt) ==
    LET p == IF persona_file = None
             THEN [ideation_prompt |-> ideation_prompt,
                   dialogue_prompt |-> dialogue_prompt, raised |-> TRUE]
             ELSE section_loop(persona_sections(persona_file[1]),
                      [ideation_prompt |-> ideation_prompt,
                       dialogue_prompt |-> dialogue_prompt, raised |-> FALSE])
    IN  IF p.raised
        THEN [ideation_prompt |-> DefaultIdeation, dialogue_prompt |-> DefaultDialogue,
              errors |-> <<"PersonaError">>]
        ELSE [ideation_prompt |-> p.ideation_prompt, dialogue_prompt |-> p.dialogue_prompt,
              errors |-> <<>>]

\* -------------------------------------------------------------------- state

Apps == {"guavawriter2", "simplified_app"}

VARIABLES
    app,                 \* which front end this session runs
    transcript,          \* session state: None or the fetched transcript
    ideas,               \* None or the idea list: st.session_state.ideas in
                         \* simplified-app; in guavawriter2 the list carried by
                         \* the latest ideas message of the chat log
    selected_idea,       \* session state: None or the selected idea
    current_script,      \* session state: None or the latest script
    revision_history,    \* session state: sequence of <<script, feedback>>
    radio,               \* simplified-app: index chosen in "Choose one idea:"
                         \* (0 is the blank first option)
    event,               \* the interaction that caused the last run
    outcome,             \* errors shown and exceptions raised by the last run
    requests,            \* requests sent to the service by the last run
    exported,            \* None or the data of the download button rendered
    persona              \* the PersonaManager of guavawriter2: its file, its
                         \* two prompts, the errors shown while loading and
                         \* whether load_persona has run

vars == <<app, transcript, ideas, selected_idea, current_script, revision_history,
          radio, event, outcome, requests, exported, persona>>

session == <<transcript, ideas, selected_idea, current_script, revision_history>>

\* PersonaManager.__init__ before its call of load_persona
Constructed(persona_file) ==
    [persona_file |-> persona_file, ideation_prompt |-> <<>>, dialogue_prompt |-> <<>>,
     errors |-> <<>>, loaded |-> FALSE]

\* The PersonaManager p after load_persona
Loaded(p) ==
    LET got == load_persona(p.persona_file, p.ideation_prompt, p.dialogue_prompt)
    IN  [persona_file |-> p.persona_file, ideation_prompt |-> got.ideation_prompt,
         dialogue_prompt |-> got.dialogue_prompt, errors |-> got.errors, loaded |-> TRUE]

NoEvent == [name |-> "start", choice |-> "", direction |-> "", text |-> None]
Event(name, choice, direction, text) ==
    [name |-> name, choice |-> choice, direction |-> direction, text |-> text]

Init ==
    /\ app \in Apps
    /\ transcript = None
    /\ ideas = None
    /\ selected_idea = None
    /\ current_script = None
    /\ revision_history = <<>>
    /\ radio = 0
    /\ event = NoEvent
    /\ outcome = <<>>
    /\ requests = <<>>
    /\ exported = None
    /\ persona = Loaded(Constructed(SessionPersona))

\* The text a successful call returned, None after a failed one
returned(svc) == IF svc.ok THEN Some(svc.text) ELSE None

\* ------------------------------------------------------- guavawriter2 main

\* gw_store_prior without its test of current_script: appends (None, direction)
gw_store_prior_always(history, script, direction) ==
    Append(history, <<IF script = None THEN "None" ELSE script[1], direction>>)

\* if current_script: revision_history.append((current_script, direction))
gw_store_prior(history, script, direction) ==
    IF TruthyStr(script) THEN Append(history, <<script[1], direction>>) ELSE history

\* "Ideate" clicked with a URL typed
GW_Ideate(url, fetch, svc) ==
    /\ app = "guavawriter2"
    /\ event' = Event("Ideate", "", "", None)
    /\ exported' = None
    /\ UNCHANGED <<app, persona, selected_idea, current_script, revision_history, radio>>
    /\ LET video_id == extract_video_id(url) IN
       IF ~video_id.ok
       THEN /\ outcome' = <<video_id.error>>
            /\ requests' = <<>>
            /\ UNCHANGED <<transcript, ideas>>
       ELSE IF ~fetch.ok
       THEN /\ outcome' = <<"TranscriptUnavailable">>
            /\ requests' = <<>>
            /\ UNCHANGED <<transcript, ideas>>
       ELSE LET got == gw_generate_ideas(Some(fetch.text), svc) IN
            /\ transcript' = Some(fetch.text)
            /\ requests' = got.requests
            /\ IF got.ideas = <<>>
               THEN /\ outcome' = got.errors \o <<"NoIdeas">>
                    /\ UNCHANGED ideas
               ELSE /\ outcome' = <<>>
                    /\ ideas' = Some(got.ideas)

\* A value typed into "Select an idea (1-3):"
GW_SelectIdea(idea_input, svc) ==
    /\ app = "guavawriter2"
    /\ TruthySeq(transcript)
    /\ ~TruthySeq(selected_idea)
    /\ event' = Event("SelectIdea", idea_input, "", None)
    /\ exported' = None
    /\ UNCHANGED <<app, persona, transcript, ideas, current_script, revision_history, radio>>
    /\ IF ~(idea_input /= "" /\ isdigit(idea_input)
            /\ 1 <= int(idea_input) /\ int(idea_input) <= 3)
       THEN /\ outcome' = <<>>
            /\ requests' = <<>>
            /\ UNCHANGED selected_idea
       ELSE LET got == gw_generate_ideas(transcript, svc) IN
            /\ requests' = got.requests
            /\ IF int(idea_input) > Len(got.ideas)
               THEN /\ outcome' = got.errors \o <<"IndexError">>
                    /\ UNCHANGED selected_idea
               ELSE /\ outcome' = <<>>
                    /\ selected_idea' = Some(got.ideas[int(idea_input)])

\* "Generate/Update Script" clicked with direction in the text area
GW_Generate(direction, svc) ==
    /\ app = "guavawriter2"
    /\ TruthySeq(selected_idea)
    /\ TruthyStr(current_script) => Len(revision_history) < MaxHistory
    /\ event' = Event("Generate", "", direction, returned(svc))
    /\ exported' = None
    /\ UNCHANGED <<app, persona, transcript, ideas, selected_idea, radio>>
    /\ revision_history' = gw_store_prior(revision_history, current_script, direction)
    /\ requests' = <<gw_generate_script(transcript, selected_idea, direction, current_script)>>
    /\ IF svc.ok
       THEN /\ current_script' = Some(svc.text)
            /\ outcome' = <<>>
       ELSE /\ outcome' = <<"GenerationServiceError">>
            /\ UNCHANGED current_script

\* "Approve" clicked
GW_Approve ==
    /\ app = "guavawriter2"
    /\ TruthySeq(selected_idea)
    /\ TruthyStr(current_script)
    /\ event' = Event("Approve", "", "", None)
    /\ outcome' = <<>>
    /\ requests' = <<>>
    /\ exported' = Some(current_script[1])
    /\ UNCHANGED <<app, persona, transcript, ideas, selected_idea, current_script,
                   revision_history, radio>>

\* --------------------------------------------------- simplified-app script

\* Python truthiness of st.session_state.ideas (None, [] -> False)
TruthyList(l) == l /= None /\ l[1] /= <<>>

\* options = [""] + st.session_state.ideas
sa_options(l) == <<<<>>>> \o l[1]

\* Lines 103-109, run on every pass of the script: the selection is overwritten
\* with the radio's value whenever there are ideas
sa_selection(l, index, selected) ==
    IF TruthyList(l) THEN Some(sa_options(l)[index + 1]) ELSE selected

\* The radio's index in the run after the idea list became l: a radio with
\* other options is a new widget at index 0; one with the same options keeps
\* its index or not (keep), as the Streamlit version decides; without ideas
\* the widget is not rendered and its state is dropped
sa_radio(old, l, index, keep) ==
    IF TruthyList(l) /\ TruthyList(old) /\ l = old /\ keep THEN index ELSE 0

\* "Ideate" clicked with a URL typed
SA_Ideate(url, fetch, svc, keep) ==
    /\ app = "simplified_app"
    /\ event' = Event("Ideate", "", "", None)
    /\ exported' = None
    /\ UNCHANGED <<app, persona, current_script, revision_history>>
    /\ LET video_id == extract_video_id(url) IN
       IF ~video_id.ok
       THEN /\ outcome' = <<video_id.error>>
            /\ requests' = <<>>
            /\ selected_idea' = sa_selection(ideas, radio, selected_idea)
            /\ UNCHANGED <<transcript, ideas, radio>>
       ELSE IF ~fetch.ok
       THEN /\ outcome' = <<"TranscriptUnavailable">>
            /\ requests' = <<>>
            /\ selected_idea' = sa_selection(ideas, radio, selected_idea)
            /\ UNCHANGED <<transcript, ideas, radio>>
       ELSE LET got == sa_generate_ideas(fetch.text, svc) IN
            /\ transcript' = Some(fetch.text)
            /\ requests' = got.requests
            /\ IF got.raised
               THEN /\ outcome' = <<"GenerationServiceError">>
                    /\ selected_idea' = sa_selection(ideas, radio, selected_idea)
                    /\ UNCHANGED <<ideas, radio>>
               ELSE /\ outcome' = <<>>
                    /\ ideas' = Some(got.ideas)
                    /\ radio' = sa_radio(ideas, ideas', radio, keep)
                    /\ selected_idea' = sa_selection(ideas', radio', selected_idea)

\* An option of "Choose one idea:" clicked
SA_Select(index) ==
    /\ app = "simplified_app"
    /\ TruthyList(ideas)
    /\ index <= Len(ideas[1])
    /\ event' = Event("SelectIdea", ToString(index), "", None)
    /\ outcome' = <<>>
    /\ requests' = <<>>
    /\ exported' = None
    /\ radio' = index
    /\ selected_idea' = sa_selection(ideas, radio', selected_idea)
    /\ UNCHANGED <<app, persona, transcript, ideas, current_script, revision_history>>

\* "Crack On" clicked with direction in the text area
SA_CrackOn(direction, svc) ==
    /\ app = "simplified_app"
    /\ TruthySeq(selected_idea)
    /\ event' = Event("Generate", "", direction, returned(svc))
    /\ exported' = None
    /\ requests' = <<sa_generate_script(transcript, selected_idea, direction, None,
                                        revision_history)>>
    /\ UNCHANGED <<app, persona, transcript, ideas, selected_idea, revision_history, radio>>
    /\ IF svc.ok
       THEN /\ current_script' = Some(svc.text)
            /\ outcome' = <<>>
       ELSE /\ outcome' = <<"GenerationServiceError">>
            /\ UNCHANGED current_script

\* sa_store_prior putting the entry first (insert(0, ...) for append)
sa_store_prior_first(history, script, direction) == <<<<script[1], direction>>>> \o history

\* st.session_state.revision_history.append((current_script, new_direction))
sa_store_prior(history, script, direction) == Append(history, <<script[1], direction>>)

\* "Update Script" clicked with feedback in the text area
SA_UpdateScript(new_direction, svc) ==
    /\ app = "simplified_app"
    /\ TruthyStr(current_script)
    /\ Len(revision_history) < MaxHistory
    /\ event' = Event("Update", "", new_direction, returned(svc))
    /\ exported' = None
    /\ revision_history' = sa_store_prior(revision_history, current_script, new_direction)
    /\ requests' = <<sa_generate_script(transcript, selected_idea, new_direction,
                                        current_script, revision_history')>>
    /\ UNCHANGED <<app, persona, transcript, ideas, selected_idea, radio>>
    /\ IF svc.ok
       THEN /\ current_script' = Some(svc.text)
            /\ outcome' = <<>>
       ELSE /\ outcome' = <<"GenerationServiceError">>
            /\ UNCHANGED current_script

\* "Approved" clicked
SA_Approved ==
    /\ app = "simplified_app"
    /\ TruthyStr(current_script)
    /\ event' = Event("Approve", "", "", None)
    /\ outcome' = <<>>
    /\ requests' = <<>>
    /\ exported' = None
    /\ UNCHANGED <<app, persona, transcript, ideas, selected_idea, current_script,
                   revision_history, radio>>

\* ------------------------------------------------------------ specification

\* The calls a run does not reach are given no outcome to choose from.
FetchesAfter(url) == IF extract_video_id(url).ok THEN FetchOutcomes ELSE {FetchFailure}
IdeasAfter(fetch) ==
    IF fetch.ok /\ (app = "simplified_app" \/ ~gw_too_short(Some(fetch.text)))
    THEN IdeaOutcomes ELSE {ServiceFailure}
IdeasAfterInput(idea_input) ==
    IF isdigit(idea_input) /\ ~gw_too_short(transcript) THEN IdeaOutcomes ELSE {ServiceFailure}
KeepChoices(svc) ==
    IF svc.ok /\ TruthyList(ideas) /\ Some(sa_parse_ideas(svc.lines)) = ideas
    THEN BOOLEAN ELSE {FALSE}

Next ==
    \/ \E url \in Urls : \E fetch \in FetchesAfter(url) : \E svc \in IdeasAfter(fetch) :
           GW_Ideate(url, fetch, svc)
    \/ \E idea_input \in IdeaInputs : \E svc \in IdeasAfterInput(idea_input) :
           GW_SelectIdea(idea_input, svc)
    \/ \E direction \in Feedbacks, svc \in ScriptOutcomes : GW_Generate(direction, svc)
    \/ GW_Approve
    \/ \E url \in Urls : \E fetch \in FetchesAfter(url) : \E svc \in IdeasAfter(fetch) :
           \E keep \in KeepChoices(svc) : SA_Ideate(url, fetch, svc, keep)
    \/ \E index \in 0..MaxIdeas : SA_Select(index)
    \/ \E direction \in Feedbacks, svc \in ScriptOutcomes : SA_CrackOn(direction, svc)
    \/ \E new_direction \in Feedbacks, svc \in ScriptOutcomes :
           SA_UpdateScript(new_direction, svc)
    \/ SA_Approved

Spec == Init /\ [][Next]_vars

\* --------------------------------------------- specification of the persona

\* GuavaWriter.__init__ builds a new PersonaManager in every run of main, on
\* whatever persona file there is at that time
PersonaManager_init(persona_file) ==
    /\ persona.loaded
    /\ persona' = Constructed(persona_file)
    /\ UNCHANGED <<app, transcript, ideas, selected_idea, current_script,
                   revision_history, radio, event, outcome, requests, exported>>

\* self.load_persona(), the last statement of PersonaManager.__init__
PersonaManager_load ==
    /\ ~persona.loaded
    /\ persona' = Loaded(persona)
    /\ UNCHANGED <<app, transcript, ideas, selected_idea, current_script,
                   revision_history, radio, event, outcome, requests, exported>>

PersonaInit ==
    /\ app = "guavawriter2"
    /\ transcript = None
    /\ ideas = None
    /\ selected_idea = None
    /\ current_script = None
    /\ revision_history = <<>>
    /\ radio = 0
    /\ event = NoEvent
    /\ outcome = <<>>
    /\ requests = <<>>
    /\ exported = None
    /\ persona \in {Constructed(persona_file) : persona_file \in PersonaFiles}

PersonaNext ==
    \/ \E persona_file \in PersonaFiles : PersonaManager_init(persona_file)
    \/ PersonaManager_load

PersonaSpec == PersonaInit /\ [][PersonaNext]_vars

\* =================================================================== claims

\* What the last run was, read from what it recorded
Generation == event.name \in {"Generate", "Update"}
Succeeded  == event.text /= None
FetchErrors == {<<"KeyError">>, <<"ValueError">>, <<"TranscriptUnavailable">>}
\* The last run was an ideate action that fetched a transcript
TranscriptLoaded == event.name = "Ideate" /\ outcome \notin FetchErrors
Selecting == event.name = "SelectIdea" /\ isdigit(event.choice)
IdeaCount == IF ideas = None THEN 0 ELSE Len(ideas[1])

\* C1: a generate/revise action whose generation call fails leaves the
\* session as it was: CurrentScript unchanged, RevisionHistory without a new
\* entry.
C1_FailedGenerationChangesNothing ==
    [][ (Generation' /\ ~Succeeded')
            => (current_script' = current_script
                /\ revision_history' = revision_history) ]_vars

\* C2: a generation with feedback fb that succeeds while CurrentScript is
\* set to s appends exactly the entry (s, fb) to the end of RevisionHistory
\* and makes the new text the CurrentScript.
C2_RevisionAppendsPriorWithFeedback ==
    [][ (Generation' /\ Succeeded' /\ current_script /= None)
            => (revision_history' =
                    Append(revision_history, <<current_script[1], event'.direction>>)
                /\ current_script' = event'.text) ]_vars

\* C3: after an ideate action that fetched a transcript, SelectedIdea and
\* CurrentScript are unset and RevisionHistory is empty.
C3_LoadResetsSession ==
    TranscriptLoaded
        => (~TruthySeq(selected_idea)
            /\ current_script = None
            /\ revision_history = <<>>)

\* C4: the length of RevisionHistory is the number of completed revisions
\* (successful generations made while a script existed) since the last
\* transcript load, counted step by step: a load leaves it at zero, a
\* completed revision adds one entry holding the script that was current
\* before the call, and no other step changes the length.
C4_HistoryCountsCompletedRevisions ==
    [][ IF TranscriptLoaded'
        THEN Len(revision_history') = 0
        ELSE IF Generation' /\ Succeeded' /\ current_script /= None
        THEN /\ Len(revision_history') = Len(revision_history) + 1
             /\ revision_history'[Len(revision_history')][1] = current_script[1]
        ELSE Len(revision_history') = Len(revision_history) ]_vars

\* C5: selectIdea(i) succeeds iff 1 <= i <= len(IdeaSet); for any other i it
\* fails with an index-out-of-range error and the session is unchanged.
C5_SelectSucceedsIffInRange ==
    [][ Selecting'
            => IF 1 <= int(event'.choice) /\ int(event'.choice) <= IdeaCount
               THEN /\ outcome' = <<>>
                    /\ selected_idea' = Some(ideas[1][int(event'.choice)])
               ELSE /\ \E k \in 1..Len(outcome') : outcome'[k] = "IndexError"
                    /\ session' = session ]_vars

\* C6: once SelectedIdea is set, no action other than an ideate that loads a
\* transcript changes or unsets it.
C6_SelectionFrozenUntilLoad ==
    [][ (TruthySeq(selected_idea) /\ ~TranscriptLoaded')
            => selected_idea' = selected_idea ]_vars

\* C7: the first successful generation of a session whose CurrentScript is
\* unset makes the generated text the CurrentScript and leaves
\* RevisionHistory empty, whatever the feedback.
C7_FirstGenerationKeepsHistoryEmpty ==
    [][ (Generation' /\ Succeeded' /\ current_script = None)
            => (current_script' = event'.text /\ revision_history' = <<>>) ]_vars

\* C7 witness: guavawriter2 has just made a first generation with feedback
\* typed (its history is empty, so no script existed before the call).
C7_Witness ==
    /\ app = "guavawriter2"
    /\ event.name = "Generate"
    /\ event.direction /= ""
    /\ Succeeded
    /\ current_script = event.text
    /\ revision_history = <<>>

\* C8: generate_script builds a revise request carrying the prior script, the
\* feedback and the history context whenever a prior script is present,
\* whatever the feedback, and a compose request carrying transcript, idea and
\* feedback only when none is present.  ("Crack On" of simplified-app passes no
\* prior script; the other generation buttons pass the current script.)
C8_ReviseWheneverPriorScript ==
    [][ Generation'
            => \A k \in 1..Len(requests') :
                 LET prompt == requests'[k].prompt
                     prior  == IF app = "simplified_app" /\ event'.name = "Generate"
                               THEN None ELSE current_script
                 IN
                 IF prior /= None
                 THEN /\ prompt.kind = "revise"
                      /\ {"current_script", "direction", "history"} \subseteq DOMAIN prompt
                      /\ prompt.current_script = current_script[1]
                      /\ prompt.direction = event'.direction
                 ELSE /\ prompt.kind = "compose"
                      /\ {"transcript", "idea", "direction"} \subseteq DOMAIN prompt
                      /\ prompt.direction = event'.direction ]_vars

\* The pieces of the k-th block of a serialization
BlockAt(out, k) == SubSeq(out, 7 * (k - 1) + 1, 7 * k)

\* C9: the serialization of a history of n entries is n blocks in append
\* order, the k-th carrying the ordinal k, the k-th entry's script and the
\* k-th entry's feedback; it is empty for n = 0.
C9_HistorySerializedInOrder ==
    LET out == format_history(revision_history)
        n   == Len(revision_history)
    IN  /\ Len(out) = 7 * n
        /\ \A k \in 1..n :
             /\ BlockAt(out, k)[1] = "\nVERSION "
             /\ BlockAt(out, k)[2] = ToString(k)
             /\ BlockAt(out, k)[4] = revision_history[k][1]
             /\ BlockAt(out, k)[5] = "\nFEEDBACK:\n"
             /\ BlockAt(out, k)[6] = revision_history[k][2]
             /\ BlockAt(out, k)[7] = "\n---"

\* C9 witness: a history of two different entries is serialized into the
\* revise request simplified-app has just sent.
C9_Witness ==
    /\ Len(revision_history) = 2
    /\ revision_history[1] /= revision_history[2]
    /\ requests /= <<>>
    /\ requests[1].op = "generate_script"
    /\ requests[1].prompt.kind = "revise"
    /\ "history" \in DOMAIN requests[1].prompt
    /\ requests[1].prompt.history = format_history(revision_history)

\* C10: proposeIdeas on a transcript whose stripped length is below 10 fails
\* with the too-short-transcript error and sends no request.
C10_ShortTranscriptSendsNothing ==
    /\ \A k \in 1..Len(requests) :
         requests[k].op = "generate_ideas"
             => Len(strip(requests[k].transcript)) >= MinTranscriptLen
    /\ (TranscriptLoaded /\ Len(strip(transcript[1])) < MinTranscriptLen)
           => \E k \in 1..Len(outcome) : outcome[k] = "TranscriptTooShort"

\* The parse C11 describes: a marker line starts an idea with the rest of the
\* line, a following non-empty line is joined to the active idea with a space
RECURSIVE MergedIdeas(_, _, _)
MergedIdeas(lines, done, active) ==
    LET closed == IF active = None THEN done ELSE Append(done, active[1]) IN
    IF lines = <<>> THEN closed
    ELSE LET line == Head(lines) IN
         IF startswith(lstrip(line), <<"Idea", ":">>)
         THEN MergedIdeas(Tail(lines), closed, Some(strip(after_first(line, ":"))))
         ELSE IF active /= None /\ strip(line) /= <<>>
         THEN MergedIdeas(Tail(lines), done, Some(active[1] \o <<" ">> \o strip(line)))
         ELSE MergedIdeas(Tail(lines), done, active)

\* The last run was an ideate action that ended without an error
IdeateDone == event.name = "Ideate" /\ outcome = <<>> /\ requests /= <<>>

\* C11: the ideas an ideate action stores are the parse of the response it
\* received: every marker line starts an idea with the remainder of the line,
\* the non-empty lines that follow are appended to it separated by a space,
\* and the first 3 ideas are kept in order of appearance.
C11_IdeasParsedWithContinuations ==
    [][ IdeateDone'
            => \A url \in Urls, fetch \in FetchOutcomes, svc \in IdeaOutcomes :
                 (svc.ok /\ (GW_Ideate(url, fetch, svc)
                             \/ \E keep \in BOOLEAN : SA_Ideate(url, fetch, svc, keep)))
                     => ideas' = Some(take(MergedIdeas(svc.lines, <<>>, None), MaxIdeas)) ]_vars

\* The step is a run whose call of the text-generation service failed
ServiceCallFailed ==
    /\ requests' /= <<>>
    /\ \/ \E url \in Urls, fetch \in FetchOutcomes :
              \/ GW_Ideate(url, fetch, ServiceFailure)
              \/ SA_Ideate(url, fetch, ServiceFailure, FALSE)
       \/ \E idea_input \in IdeaInputs : GW_SelectIdea(idea_input, ServiceFailure)
       \/ \E direction \in Feedbacks :
              \/ GW_Generate(direction, ServiceFailure)
              \/ SA_CrackOn(direction, ServiceFailure)
              \/ SA_UpdateScript(direction, ServiceFailure)

\* C12: a run whose call of the text-generation service fails ends in the
\* generation-service error and in nothing else (the failure is not turned
\* into a normal result such as an empty idea list), and it has sent exactly
\* one request.
C12_ServiceFailurePropagatesOnce ==
    [][ ServiceCallFailed
            => (outcome' = <<"GenerationServiceError">> /\ Len(requests') = 1) ]_vars

\* The stages of the scenario of C13.  ThreeIdeasLoaded is the session after
\* loadTranscript(valid text) and setIdeas of three ideas.
ThreeIdeasLoaded ==
    /\ TruthySeq(transcript)
    /\ ideas /= None
    /\ Len(ideas[1]) = 3
    /\ current_script = None
    /\ revision_history = <<>>
SecondSelected == ThreeIdeasLoaded /\ selected_idea = Some(ideas[1][2])
FirstDraft ==
    /\ TruthySeq(transcript)
    /\ ideas /= None
    /\ Len(ideas[1]) = 3
    /\ selected_idea = Some(ideas[1][2])
    /\ current_script = Some("draft v1")
    /\ revision_history = <<>>
SecondDraft ==
    /\ TruthySeq(transcript)
    /\ ideas /= None
    /\ Len(ideas[1]) = 3
    /\ selected_idea = Some(ideas[1][2])
    /\ current_script = Some("draft v2")
    /\ revision_history = << <<"draft v1", "make it shorter">> >>

\* C13: from a loaded transcript with three ideas and nothing selected,
\* selecting idea 2 selects the second idea; from there a generation
\* returning 'draft v1' with empty feedback makes it the script and leaves the
\* history empty; from there a generation returning 'draft v2' with feedback
\* 'make it shorter' ends with the second idea selected, the script 'draft v2'
\* and the history [('draft v1', 'make it shorter')].
C13_ScenarioEndsInSecondDraft ==
    [][ /\ (ThreeIdeasLoaded /\ ~TruthySeq(selected_idea)
               /\ event'.name = "SelectIdea" /\ event'.choice = "2")
            => SecondSelected'
        /\ (SecondSelected /\ Generation' /\ event'.direction = ""
               /\ event'.text = Some("draft v1"))
            => FirstDraft'
        /\ (FirstDraft /\ Generation' /\ event'.direction = "make it shorter"
               /\ event'.text = Some("draft v2"))
            => SecondDraft' ]_vars

\* C14: the stored idea list has at most 3 elements, each of them a non-empty
\* text without leading or trailing whitespace.
C14_IdeasAreTrimmedNonEmpty ==
    ideas /= None
        => /\ Len(ideas[1]) <= 3
           /\ \A k \in 1..Len(ideas[1]) :
                /\ ideas[1][k] /= <<>>
                /\ strip(ideas[1][k]) = ideas[1][k]

\* C15: a selection step that sets SelectedIdea sets it to the element of the
\* stored idea list (the list of the last ideate, the one shown) at the index
\* chosen, and sends no request for another list.
C15_SelectionReadsShownIdeas ==
    [][ (Selecting' /\ TruthySeq(selected_idea') /\ selected_idea' /= selected_idea)
            => /\ 1 <= int(event'.choice) /\ int(event'.choice) <= IdeaCount
               /\ selected_idea' = Some(ideas[1][int(event'.choice)])
               /\ ideas' = ideas
               /\ requests' = <<>> ]_vars

\* The step is an ideate run whose idea request failed
IdeateCallFailed ==
    /\ requests' /= <<>>
    /\ \E url \in Urls, fetch \in FetchOutcomes :
           \/ GW_Ideate(url, fetch, ServiceFailure)
           \/ SA_Ideate(url, fetch, ServiceFailure, FALSE)

\* C16: an ideate action whose idea-proposal call fails writes nothing:
\* Transcript and IdeaSet are as they were before the action.
C16_FailedIdeateWritesNothing ==
    [][ IdeateCallFailed => (transcript' = transcript /\ ideas' = ideas) ]_vars

\* C17: every step that is not a transcript load leaves RevisionHistory
\* unchanged or extends it by exactly one entry at the end; the entries it
\* had stay in place.
C17_HistoryAppendOnly ==
    [][ ~TranscriptLoaded'
            => \/ revision_history' = revision_history
               \/ /\ Len(revision_history') = Len(revision_history) + 1
                  /\ SubSeq(revision_history', 1, Len(revision_history))
                         = revision_history ]_vars

\* C17 witness: a revision has just added a second entry, different from the
\* first, behind the first.
C17_Witness ==
    /\ Generation
    /\ Len(revision_history) = 2
    /\ revision_history[1] /= revision_history[2]
    /\ revision_history[2][2] = event.direction

\* The order of the session's state machine, as a predicate of one state
StagesInOrder ==
    /\ current_script /= None => TruthySeq(selected_idea)
    /\ TruthySeq(selected_idea) => (TruthyList(ideas) /\ transcript /= None)
    /\ revision_history /= <<>> => current_script /= None

\* C18: every state reached keeps the order of the stages (a script only
\* with a selected idea, a selected idea only with a non-empty idea list
\* stored and a transcript loaded, history entries only with a script), and
\* no generation starts while no idea is selected.
C18_SessionFollowsStageOrder ==
    [][ StagesInOrder' /\ (Generation' => TruthySeq(selected_idea)) ]_vars

\* The widgets a run of the script renders on the session it finds, by the
\* name of the event they cause.  guavawriter2 main:
gw_offers(name) ==
    CASE name = "Ideate"     -> TRUE
      [] name = "SelectIdea" -> TruthySeq(transcript) /\ ~TruthySeq(selected_idea)
      [] name = "Generate"   -> TruthySeq(selected_idea)
      [] name = "Approve"    -> TruthySeq(selected_idea) /\ TruthyStr(current_script)
      [] OTHER               -> FALSE

\* simplified-app script:
sa_offers(name) ==
    CASE name = "Ideate"     -> TRUE
      [] name = "SelectIdea" -> TruthyList(ideas)
      [] name = "Generate"   -> TruthySeq(selected_idea)
      [] name = "Update"     -> TruthyStr(current_script)
      [] name = "Approve"    -> TruthyStr(current_script)
      [] OTHER               -> FALSE

offers(name) == IF app = "guavawriter2" THEN gw_offers(name) ELSE sa_offers(name)

EventNames == {"Ideate", "SelectIdea", "Generate", "Update", "Approve"}

\* C19: after a run that ended in a failure the action that failed is still
\* offered, and so is every action that was offered before the run.
C19_FailureKeepsActionsOffered ==
    [][ outcome' /= <<>>
            => \A name \in EventNames :
                   (name = event'.name \/ offers(name)) => offers(name)' ]_vars

\* C20: an approve step happens only with CurrentScript set, leaves
\* Transcript, IdeaSet, SelectedIdea, CurrentScript and RevisionHistory as
\* they were, exports the CurrentScript text, and leaves the revise action
\* offered.
C20_ApproveExportsCurrentScript ==
    [][ event'.name = "Approve"
            => /\ current_script /= None
               /\ session' = session
               /\ exported' = current_script
               /\ offers(IF app = "guavawriter2" THEN "Generate" ELSE "Update")' ]_vars

\* C21: the history context of a revise request is the serialization of the
\* history as it was before the run: the script being revised and the new
\* feedback are in the request as prior script and feedback only, not as a
\* last history block as well.
C21_ReviseContextExcludesCurrentPair ==
    [][ Generation'
            => \A k \in 1..Len(requests') :
                 requests'[k].prompt.kind = "revise"
                     => /\ "history" \in DOMAIN requests'[k].prompt
                        /\ requests'[k].prompt.history = format_history(revision_history) ]_vars

\* No line of the response begins with the idea marker
NoMarkerLine(lines) ==
    \A k \in 1..Len(lines) : ~startswith(lstrip(lines[k]), <<"Idea">>)

\* The inputs of an ideate that reaches the idea call: a URL with a video id
\* and a fetched transcript
LoadingUrls == {url \in Urls : extract_video_id(url).ok}
Fetched     == {fetch \in FetchOutcomes : fetch.ok}

\* The successful idea calls answered without a marker line
NoMarkerOutcomes == {svc \in IdeaOutcomes : svc.ok /\ NoMarkerLine(svc.lines)}

\* C22: an ideate whose idea response has no marker line gets the empty idea
\* list from generate_ideas as a normal result (no exception, no service
\* error), ends with at most the "no ideas" message, stores no idea, and
\* leaves ideate offered.
C22_NoMarkerGivesEmptyList ==
    [][ (event'.name = "Ideate" /\ requests' /= <<>>)
            => \A url \in LoadingUrls, fetch \in Fetched, svc \in NoMarkerOutcomes :
                 (GW_Ideate(url, fetch, svc)
                      \/ \E keep \in BOOLEAN : SA_Ideate(url, fetch, svc, keep))
                 => /\ IF app = "guavawriter2"
                       THEN /\ gw_generate_ideas(Some(fetch.text), svc).ideas = <<>>
                            /\ gw_generate_ideas(Some(fetch.text), svc).errors = <<>>
                            /\ ideas' = ideas
                       ELSE /\ ~sa_generate_ideas(fetch.text, svc).raised
                            /\ sa_generate_ideas(fetch.text, svc).ideas = <<>>
                            /\ ideas' = Some(<<>>)
                    /\ outcome' \in {<<>>, <<"NoIdeas">>}
                    /\ offers("Ideate")' ]_vars

\* C22 witness: guavawriter2 has just run an ideate whose request was
\* answered without any idea: the only message is the "no ideas" one.
C22_Witness ==
    /\ app = "guavawriter2"
    /\ event.name = "Ideate"
    /\ requests /= <<>>
    /\ outcome = <<"NoIdeas">>
    /\ offers("Ideate")

\* The document has a header line of the section called name
HasSection(document, name) ==
    \E i \in 1..Len(document) :
        header_at(document, i) /\ i + 2 <= Len(document) /\ document[i + 2] = name

\* C23: after load_persona the ideation guidance and the dialogue guidance
\* are both non-empty, and each is the built-in default when the persona file
\* cannot be read or has no section of its name.
C23_PersonaGuidanceNeverEmpty ==
    persona.loaded
        => /\ persona.ideation_prompt /= <<>>
           /\ persona.dialogue_prompt /= <<>>
           /\ (persona.persona_file = None
                  \/ ~HasSection(persona.persona_file[1], "Ideation"))
                  => persona.ideation_prompt = DefaultIdeation
           /\ (persona.persona_file = None
                  \/ ~HasSection(persona.persona_file[1], "Dialogue"))
                  => persona.dialogue_prompt = DefaultDialogue

====
